---- MODULE Spec2Model ----
(***************************************************************************)
(* A model of the myriad mpmc channel: the lock-free queue (queue.rs), the *)
(* lock-free stack (stack.rs) and the channel layer (mod.rs).              *)
(*                                                                         *)
(* Every access to shared memory is one step of the thread that makes it.  *)
(* The heap is a finite set of addresses; Box::new takes any address that  *)
(* is not allocated (an address freed earlier may be handed out again) and *)
(* dropping a Box frees the address at once, as the source does.           *)
(* A read through a pointer to a freed node yields any value of the        *)
(* field's type; a dereference of the null pointer ends the process.       *)
(* The stores a thread makes with plain or Release ordering may take       *)
(* effect after a later Acquire load of another location by the same       *)
(* thread (store buffering, which Release/Acquire permit); read-modify-    *)
(* write operations and mutex operations are not delayed.                  *)
(***************************************************************************)
EXTENDS Integers, Sequences, FiniteSets, TLC

\* ---------------------------------------------------------------- bounds
MaxSends == 2       \* values handed to send in one run of the channel
MaxLen   == 3       \* pushes in one run of the sequential container
MaxPops  == 4       \* head exchanges won in one run of the channel

\* ------------------------------------------------------------- constants
NULL    == 0                      \* ptr::null_mut()
None    == 0                      \* Option::None in a payload slot
Unset   == -1                     \* a local not assigned yet
Pending == -1                     \* a removal whose payload is not taken yet
Val     == 1 .. MaxSends          \* payloads
Senders   == {"s1", "s2"}
Receivers == {"r1", "r2"}

VARIABLES
    kind,       \* "queue" | "stack": the container behind Box<LockFree<T>>
    Addr,       \* the addresses of the heap (fixed in a run)
    head,       \* Queue.head / Stack.head
    tail,       \* Queue.tail (NULL for the stack)
    mem,        \* the nodes: [data, next] by address
    live,       \* the allocated addresses
    connected,  \* Inner.connected
    sleepers,   \* Inner.sleepers
    guard,      \* Inner.guard: the thread holding the mutex, or "free"
    guardVal,   \* the bool inside Inner.guard
    waiting,    \* the threads parked on Inner.waker
    holders,    \* the threads that own a Sender or a Receiver handle
    th,         \* each thread's position and locals
    nextv,      \* the next value a send is called with
    pushed,     \* history: the values in the order their insertion was linearized
    popped,     \* history: the payloads taken, in the order head was exchanged
    okSent,     \* history: the values whose send returned Ok
    rets,       \* history: what the sequential pops returned, in call order
    reclaimed   \* history: the payloads the destructor reclaimed with their nodes

vars == <<kind, Addr, head, tail, mem, live, connected, sleepers, guard, guardVal,
          waiting, holders, th, nextv, pushed, popped, okSent, rets, reclaimed>>

heapVars == <<head, tail, mem, live>>
chanVars == <<connected, sleepers, guard, guardVal, waiting, holders>>
histVars == <<nextv, pushed, popped, okSent, rets>>

Threads == DOMAIN th

Res(tag, val) == [tag |-> tag, val |-> val]
NoRes == Res("none", 0)

\* A thread between two operations.
IdleThread == [pc |-> "idle", op |-> "none", v |-> None, n |-> NULL, h |-> NULL,
               nx |-> NULL, slot |-> 0, sl |-> Unset, len |-> 0, res |-> NoRes,
               seen |-> {}]

\* The locals of a finished call are dead.
Clear(r) == [r EXCEPT !.n = NULL, !.h = NULL, !.nx = NULL, !.slot = 0, !.sl = Unset,
                      !.len = 0]

Crashed == \E t \in Threads : th[t].pc = "crash"

\* ------------------------------------------------------------------ heap
FreeNode == [data |-> None, next |-> NULL]

\* What a read of (*a).next can yield.
ReadNext(a) == IF a \in live THEN {mem[a].next} ELSE Addr \cup {NULL}

\* What a read of (*a).data can yield.
ReadData(a) == IF a \in live THEN {mem[a].data} ELSE Val \cup {None}

\* (*a).data = x and (*a).next = x; a store to a freed address changes no node.
StoreData(a, x) == IF a \in live THEN [mem EXCEPT ![a].data = x] ELSE mem
StoreNext(a, x) == IF a \in live THEN [mem EXCEPT ![a].next = x] ELSE mem

\* How often value v was the payload a pop took.
Got(v) == Cardinality({i \in DOMAIN popped : popped[i] = v})

\* Value v is in the container: no pop took it and none is about to take one.
Unreceived(v) == Got(v) = 0 /\ \A i \in DOMAIN popped : popped[i] # Pending

\* The end of the process (a segmentation fault, an abort of the allocator).
CrashAll == [u \in Threads |-> [th[u] EXCEPT !.pc = "crash"]]

\* ------------------------------------------------- returns of push and pop
\* The thread after LockFree::push returns: to the caller of a bare push, or
\* into Sender::send after line 109.
AfterPush(r) ==
    IF r.op = "push" THEN [Clear(r) EXCEPT !.pc = "idle", !.res = Res("Unit", 0)]
    ELSE IF r.sl = Unset THEN [Clear(r) EXCEPT !.pc = "send_sleepers"]
    ELSE IF r.sl > 0 THEN [Clear(r) EXCEPT !.pc = "send_lock"]
    ELSE [Clear(r) EXCEPT !.pc = "idle", !.res = Res("Ok", 0)]

\* The thread after LockFree::pop returns x: to the caller of a bare pop, or
\* into the match of Receiver::try_recv.
AfterPop(r, x) ==
    IF r.op = "pop"
    THEN [Clear(r) EXCEPT !.pc = "idle", !.res = Res(IF x = None THEN "None" ELSE "Some", x)]
    ELSE IF x = None THEN [Clear(r) EXCEPT !.pc = "try_conn"]
    ELSE IF r.op = "recv_loop"
    THEN [Clear(r) EXCEPT !.pc = "recv_dec", !.res = Res("Ok", x), !.seen = {}]
    ELSE [Clear(r) EXCEPT !.pc = "idle", !.res = Res("Ok", x), !.seen = {}]

\* The values whose send has returned Ok once thread record r is in place.
OkSentWith(r) ==
    IF r.pc = "idle" /\ r.res.tag = "Ok" /\ r.op = "send" THEN okSent \cup {r.v} ELSE okSent

\* The returns of the sequential pops once a bare pop returns x.
RetsWith(r, x) == IF r.op = "pop" THEN Append(rets, x) ELSE rets

\* ----------------------------------------------------------------- queue
\* queue.rs 41: let new_tail = Node::new(None)
QPushAlloc(t) ==
    /\ th[t].pc = "q_push"
    /\ \E a \in Addr \ live :
        /\ live' = live \cup {a}
        /\ mem' = [mem EXCEPT ![a] = [data |-> None, next |-> NULL]]
        /\ th' = [th EXCEPT ![t] = [@ EXCEPT !.pc = "q_push_load", !.n = a]]
    /\ UNCHANGED <<kind, Addr, reclaimed, head, tail, chanVars, histVars>>

\* queue.rs 45: let tail = self.tail.load(Acquire)
QPushLoadTail(t) ==
    /\ th[t].pc = "q_push_load"
    /\ th' = [th EXCEPT ![t] = [@ EXCEPT !.pc = "q_push_cas", !.h = tail]]
    /\ UNCHANGED <<kind, Addr, reclaimed, heapVars, chanVars, histVars>>

\* queue.rs 47: tail == self.tail.compare_and_swap(tail, new_tail, Release)
QPushCas(t) ==
    /\ th[t].pc = "q_push_cas"
    /\ IF tail = th[t].h
       THEN /\ tail' = th[t].n
            /\ pushed' = Append(pushed, th[t].v)
            /\ th' = [th EXCEPT ![t] = [@ EXCEPT !.pc = "q_push_data"]]
       ELSE /\ th' = [th EXCEPT ![t] = [@ EXCEPT !.pc = "q_push_load"]]
            /\ UNCHANGED <<tail, pushed>>
    /\ UNCHANGED <<kind, Addr, reclaimed, head, mem, live, chanVars, nextv, popped, okSent, rets>>

\* A slip in queue.rs 48: the payload written into the new tail node instead
\* of the old one, new_tail.data = Some(data).
QPushData_IntoNewTail(t) ==
    /\ th[t].pc = "q_push_data"
    /\ mem' = StoreData(th[t].n, th[t].v)
    /\ th' = [th EXCEPT ![t] = [@ EXCEPT !.pc = "q_push_next"]]
    /\ UNCHANGED <<kind, Addr, reclaimed, head, tail, live, chanVars, histVars>>

\* queue.rs 48: (*tail).data = Some(data)
QPushData(t) ==
    /\ th[t].pc = "q_push_data"
    /\ mem' = StoreData(th[t].h, th[t].v)
    /\ th' = [th EXCEPT ![t] = [@ EXCEPT !.pc = "q_push_next"]]
    /\ UNCHANGED <<kind, Addr, reclaimed, head, tail, live, chanVars, histVars>>

\* queue.rs 49-50: (*tail).next = new_tail; break
QPushNext(t) ==
    /\ th[t].pc = "q_push_next"
    /\ mem' = StoreNext(th[t].h, th[t].n)
    /\ th' = [th EXCEPT ![t] = AfterPush(th[t])]
    /\ okSent' = OkSentWith(AfterPush(th[t]))
    /\ UNCHANGED <<kind, Addr, reclaimed, head, tail, live, chanVars, nextv, pushed, popped, rets>>

\* queue.rs 59: let head = self.head.load(Acquire)
QPopLoadHead(t) ==
    /\ th[t].pc = "q_pop"
    /\ th' = [th EXCEPT ![t] = [@ EXCEPT !.pc = "q_pop_check", !.h = head]]
    /\ UNCHANGED <<kind, Addr, reclaimed, heapVars, chanVars, histVars>>

\* queue.rs 60-62: if (*head).next.is_null() { return None }
QPopCheck(t) ==
    /\ th[t].pc = "q_pop_check"
    /\ IF th[t].h = NULL
       THEN /\ th' = CrashAll
            /\ UNCHANGED rets
       ELSE \E x \in ReadNext(th[t].h) :
            IF x = NULL
            THEN /\ th' = [th EXCEPT ![t] = AfterPop(th[t], None)]
                 /\ rets' = RetsWith(th[t], None)
            ELSE /\ th' = [th EXCEPT ![t] = [@ EXCEPT !.pc = "q_pop_read"]]
                 /\ UNCHANGED rets
    /\ UNCHANGED <<kind, Addr, reclaimed, heapVars, chanVars, nextv, pushed, popped, okSent>>

\* queue.rs 63: the argument (*head).next of compare_and_swap, read again
QPopReadNext(t) ==
    /\ th[t].pc = "q_pop_read"
    /\ \E x \in ReadNext(th[t].h) :
        th' = [th EXCEPT ![t] = [@ EXCEPT !.pc = "q_pop_cas", !.nx = x]]
    /\ UNCHANGED <<kind, Addr, reclaimed, heapVars, chanVars, histVars>>

\* queue.rs 63: head == self.head.compare_and_swap(head, (*head).next, Release)
QPopCas(t) ==
    /\ th[t].pc = "q_pop_cas"
    /\ IF head = th[t].h
       THEN /\ head' = th[t].nx
            /\ popped' = Append(popped, Pending)
            /\ th' = [th EXCEPT ![t] = [@ EXCEPT !.pc = "q_pop_take", !.slot = Len(popped) + 1]]
       ELSE /\ th' = [th EXCEPT ![t] = [@ EXCEPT !.pc = "q_pop"]]
            /\ UNCHANGED <<head, popped>>
    /\ UNCHANGED <<kind, Addr, reclaimed, tail, mem, live, chanVars, nextv, pushed, okSent, rets>>

\* queue.rs 64-65: let mut node = Box::from_raw(head); return node.data.take()
\* (the Box is dropped on return: the node is freed). Freeing a node that is
\* not allocated either goes unnoticed or ends the process.
QPopTake(t) ==
    /\ th[t].pc = "q_pop_take"
    /\ \E x \in ReadData(th[t].h), abort \in {FALSE, th[t].h \notin live} :
        /\ th' = IF abort THEN CrashAll ELSE [th EXCEPT ![t] = AfterPop(th[t], x)]
        /\ popped' = IF abort THEN popped ELSE [popped EXCEPT ![th[t].slot] = x]
        /\ rets' = IF abort THEN rets ELSE RetsWith(th[t], x)
    /\ live' = live \ {th[t].h}
    /\ mem' = [mem EXCEPT ![th[t].h] = FreeNode]
    /\ UNCHANGED <<kind, Addr, reclaimed, head, tail, chanVars, nextv, pushed, okSent>>

\* ----------------------------------------------------------------- stack
\* stack.rs 27-30: let new_head = Box::into_raw(Box::new(Node { data: Some(item), next: null }))
SPushAlloc(t) ==
    /\ th[t].pc = "s_push"
    /\ \E a \in Addr \ live :
        /\ live' = live \cup {a}
        /\ mem' = [mem EXCEPT ![a] = [data |-> th[t].v, next |-> NULL]]
        /\ th' = [th EXCEPT ![t] = [@ EXCEPT !.pc = "s_push_load", !.n = a]]
    /\ UNCHANGED <<kind, Addr, reclaimed, head, tail, chanVars, histVars>>

\* stack.rs 33: let head = self.head.load(Acquire)
SPushLoadHead(t) ==
    /\ th[t].pc = "s_push_load"
    /\ th' = [th EXCEPT ![t] = [@ EXCEPT !.pc = "s_push_link", !.h = head]]
    /\ UNCHANGED <<kind, Addr, reclaimed, heapVars, chanVars, histVars>>

\* A slip in stack.rs 34: the new node is not linked to the old head.
SPushLink_NoLink(t) ==
    /\ th[t].pc = "s_push_link"
    /\ th' = [th EXCEPT ![t] = [@ EXCEPT !.pc = "s_push_cas"]]
    /\ UNCHANGED <<kind, Addr, reclaimed, heapVars, chanVars, histVars>>

\* stack.rs 34: (*new_head).next = head
SPushLink(t) ==
    /\ th[t].pc = "s_push_link"
    /\ mem' = StoreNext(th[t].n, th[t].h)
    /\ th' = [th EXCEPT ![t] = [@ EXCEPT !.pc = "s_push_cas"]]
    /\ UNCHANGED <<kind, Addr, reclaimed, head, tail, live, chanVars, histVars>>

\* stack.rs 35-37: head == self.head.compare_and_swap(head, new_head, Relaxed)
SPushCas(t) ==
    /\ th[t].pc = "s_push_cas"
    /\ IF head = th[t].h
       THEN /\ head' = th[t].n
            /\ pushed' = Append(pushed, th[t].v)
            /\ th' = [th EXCEPT ![t] = AfterPush(th[t])]
            /\ okSent' = OkSentWith(AfterPush(th[t]))
       ELSE /\ th' = [th EXCEPT ![t] = [@ EXCEPT !.pc = "s_push_load"]]
            /\ UNCHANGED <<head, pushed, okSent>>
    /\ UNCHANGED <<kind, Addr, reclaimed, tail, mem, live, chanVars, nextv, popped, rets>>

\* stack.rs 44-46: let head = self.head.load(Acquire); if head.is_null() { return None }
SPopLoadHead(t) ==
    /\ th[t].pc = "s_pop"
    /\ IF head = NULL
       THEN /\ th' = [th EXCEPT ![t] = AfterPop(th[t], None)]
            /\ rets' = RetsWith(th[t], None)
       ELSE /\ th' = [th EXCEPT ![t] = [@ EXCEPT !.pc = "s_pop_read", !.h = head]]
            /\ UNCHANGED rets
    /\ UNCHANGED <<kind, Addr, reclaimed, heapVars, chanVars, nextv, pushed, popped, okSent>>

\* stack.rs 49: let next = (*head).next
SPopReadNext(t) ==
    /\ th[t].pc = "s_pop_read"
    /\ \E x \in ReadNext(th[t].h) :
        th' = [th EXCEPT ![t] = [@ EXCEPT !.pc = "s_pop_cas", !.nx = x]]
    /\ UNCHANGED <<kind, Addr, reclaimed, heapVars, chanVars, histVars>>

\* stack.rs 50: head == self.head.compare_and_swap(head, next, Release)
SPopCas(t) ==
    /\ th[t].pc = "s_pop_cas"
    /\ IF head = th[t].h
       THEN /\ head' = th[t].nx
            /\ popped' = Append(popped, Pending)
            /\ th' = [th EXCEPT ![t] = [@ EXCEPT !.pc = "s_pop_take", !.slot = Len(popped) + 1]]
       ELSE /\ th' = [th EXCEPT ![t] = [@ EXCEPT !.pc = "s_pop"]]
            /\ UNCHANGED <<head, popped>>
    /\ UNCHANGED <<kind, Addr, reclaimed, tail, mem, live, chanVars, nextv, pushed, okSent, rets>>

\* stack.rs 51-52: let mut node = Box::from_raw(head); return node.data.take()
SPopTake(t) ==
    /\ th[t].pc = "s_pop_take"
    /\ \E x \in ReadData(th[t].h), abort \in {FALSE, th[t].h \notin live} :
        /\ th' = IF abort THEN CrashAll ELSE [th EXCEPT ![t] = AfterPop(th[t], x)]
        /\ popped' = IF abort THEN popped ELSE [popped EXCEPT ![th[t].slot] = x]
        /\ rets' = IF abort THEN rets ELSE RetsWith(th[t], x)
    /\ live' = live \ {th[t].h}
    /\ mem' = [mem EXCEPT ![th[t].h] = FreeNode]
    /\ UNCHANGED <<kind, Addr, reclaimed, head, tail, chanVars, nextv, pushed, okSent>>

\* The steps inside the containers.
ContainerStep ==
    \/ \E t \in Threads : QPushAlloc(t)
    \/ \E t \in Threads : QPushLoadTail(t)
    \/ \E t \in Threads : QPushCas(t)
    \/ \E t \in Threads : QPushData(t)
    \/ \E t \in Threads : QPushNext(t)
    \/ \E t \in Threads : QPopLoadHead(t)
    \/ \E t \in Threads : QPopCheck(t)
    \/ \E t \in Threads : QPopReadNext(t)
    \/ \E t \in Threads : QPopCas(t)
    \/ \E t \in Threads : QPopTake(t)
    \/ \E t \in Threads : SPushAlloc(t)
    \/ \E t \in Threads : SPushLoadHead(t)
    \/ \E t \in Threads : SPushLink(t)
    \/ \E t \in Threads : SPushCas(t)
    \/ \E t \in Threads : SPopLoadHead(t)
    \/ \E t \in Threads : SPopReadNext(t)
    \/ \E t \in Threads : SPopCas(t)
    \/ \E t \in Threads : SPopTake(t)

\* ------------------------------------------------------------------- len
\* queue.rs 72-74: let mut len = 0; let mut head = self.head.load(Acquire)
QLenLoadHead(t) ==
    /\ th[t].pc = "q_len"
    /\ th' = [th EXCEPT ![t] = [@ EXCEPT !.pc = "q_len_check", !.h = head, !.len = 0]]
    /\ UNCHANGED <<kind, Addr, reclaimed, heapVars, chanVars, histVars>>

\* A slip in queue.rs 76: the walk tests head itself, as Stack::len does, and
\* counts the placeholder.
QLenCheck_CountPlaceholder(t) ==
    /\ th[t].pc = "q_len_check"
    /\ th[t].len < Cardinality(Addr)
    /\ th' = [th EXCEPT ![t] =
                IF th[t].h = NULL
                THEN [Clear(@) EXCEPT !.pc = "idle", !.res = Res("Len", th[t].len)]
                ELSE [@ EXCEPT !.pc = "q_len_next"]]
    /\ UNCHANGED <<kind, Addr, reclaimed, heapVars, chanVars, histVars>>

\* queue.rs 76, 79-80: if !(*head).next.is_null() { .. } else { return len }
QLenCheck(t) ==
    /\ th[t].pc = "q_len_check"
    /\ th[t].len < Cardinality(Addr)
    /\ IF th[t].h = NULL
       THEN th' = CrashAll
       ELSE \E x \in ReadNext(th[t].h) :
            th' = [th EXCEPT ![t] =
                      IF x = NULL
                      THEN [Clear(@) EXCEPT !.pc = "idle", !.res = Res("Len", th[t].len)]
                      ELSE [@ EXCEPT !.pc = "q_len_next"]]
    /\ UNCHANGED <<kind, Addr, reclaimed, heapVars, chanVars, histVars>>

\* queue.rs 77-78: head = (*head).next; len += 1
QLenAdvance(t) ==
    /\ th[t].pc = "q_len_next"
    /\ \E x \in ReadNext(th[t].h) :
        th' = [th EXCEPT ![t] = [@ EXCEPT !.pc = "q_len_check", !.h = x, !.len = @ + 1]]
    /\ UNCHANGED <<kind, Addr, reclaimed, heapVars, chanVars, histVars>>

\* stack.rs 60-62: let mut len = 0; let mut head = self.head.load(Acquire)
SLenLoadHead(t) ==
    /\ th[t].pc = "s_len"
    /\ th' = [th EXCEPT ![t] = [@ EXCEPT !.pc = "s_len_step", !.h = head, !.len = 0]]
    /\ UNCHANGED <<kind, Addr, reclaimed, heapVars, chanVars, histVars>>

\* stack.rs 64-68: if !head.is_null() { head = (*head).next; len += 1 } else { return len }
SLenStep(t) ==
    /\ th[t].pc = "s_len_step"
    /\ th[t].len < Cardinality(Addr)
    /\ IF th[t].h = NULL
       THEN th' = [th EXCEPT ![t] = [Clear(@) EXCEPT !.pc = "idle", !.res = Res("Len", th[t].len)]]
       ELSE \E x \in ReadNext(th[t].h) :
            th' = [th EXCEPT ![t] = [@ EXCEPT !.h = x, !.len = @ + 1]]
    /\ UNCHANGED <<kind, Addr, reclaimed, heapVars, chanVars, histVars>>

\* LockFree::len
LenStep ==
    \/ \E t \in Threads : QLenLoadHead(t)
    \/ \E t \in Threads : QLenCheck(t)
    \/ \E t \in Threads : QLenAdvance(t)
    \/ \E t \in Threads : SLenLoadHead(t)
    \/ \E t \in Threads : SLenStep(t)

\* ------------------------------------------------------------------ drop
\* queue.rs 88-92 and stack.rs 76-80: Drop for Queue / Drop for Stack, run by
\* the thread that lets go of the container when no handle is left and no
\* call is in progress: let head = self.head.swap(null, SeqCst);
\* if !head.is_null() { let mut node = Box::from_raw(head)
ContainerDrop(t) ==
    /\ holders = {}
    /\ \A u \in Threads : th[u].pc = "idle"
    /\ head' = NULL
    /\ th' = [th EXCEPT ![t] =
                IF head = NULL THEN [IdleThread EXCEPT !.pc = "dropped", !.op = "destroy"]
                ELSE [IdleThread EXCEPT !.pc = "drop_node", !.op = "destroy", !.h = head]]
    /\ UNCHANGED <<kind, Addr, reclaimed, tail, mem, live, chanVars, histVars>>

\* queue.rs 93-99 and stack.rs 81-87: if !node.next.is_null() { node =
\* Box::from_raw(node.next) } else { break }: the Box that node held is dropped,
\* its payload with it, on the assignment or at the end of the scope.
DropNode(t) ==
    /\ th[t].pc = "drop_node"
    /\ Len(reclaimed) < Cardinality(Addr)
    /\ \E nx \in ReadNext(th[t].h), x \in ReadData(th[t].h), abort \in {FALSE, th[t].h \notin live} :
        /\ th' = IF abort THEN CrashAll
                 ELSE IF nx = NULL THEN [th EXCEPT ![t] = [@ EXCEPT !.pc = "dropped", !.h = NULL]]
                 ELSE [th EXCEPT ![t] = [@ EXCEPT !.h = nx]]
        /\ reclaimed' = IF abort THEN reclaimed ELSE Append(reclaimed, x)
    /\ live' = live \ {th[t].h}
    /\ mem' = [mem EXCEPT ![th[t].h] = FreeNode]
    /\ UNCHANGED <<kind, Addr, head, tail, chanVars, histVars>>

\* Drop for Queue / Drop for Stack
DropStep ==
    \/ \E t \in Threads : ContainerDrop(t)
    \/ \E t \in Threads : DropNode(t)

\* mod.rs 32-33: the call through Box<LockFree<T>> enters the chosen container.
PushEntry == IF kind = "queue" THEN "q_push" ELSE "s_push"
PopEntry  == IF kind = "queue" THEN "q_pop" ELSE "s_pop"
LenEntry  == IF kind = "queue" THEN "q_len" ELSE "s_len"

\* --------------------------------------------------------------- channel
SenderHandles   == holders \cap Senders
ReceiverHandles == holders \cap Receivers

\* mod.rs 105-108, 115-118: send(data) reads the liveness flag and either
\* enters push or returns Err(data).
SendCall(t) ==
    /\ t \in SenderHandles
    /\ th[t].pc = "idle"
    /\ nextv <= MaxSends
    /\ nextv' = nextv + 1
    /\ th' = [th EXCEPT ![t] =
                IF connected
                THEN [IdleThread EXCEPT !.pc = PushEntry, !.op = "send", !.v = nextv]
                ELSE [IdleThread EXCEPT !.op = "send", !.v = nextv, !.res = Res("Err", nextv)]]
    /\ UNCHANGED <<kind, Addr, reclaimed, heapVars, chanVars, pushed, popped, okSent, rets>>

\* mod.rs 110: self.inner.sleepers.load(Acquire) > 0, taking effect before the
\* plain stores of queue.rs 48-49 do.
SendLoadSleepersEarly(t) ==
    /\ th[t].pc \in {"q_push_data", "q_push_next"}
    /\ th[t].op = "send"
    /\ th[t].sl = Unset
    /\ th' = [th EXCEPT ![t] = [@ EXCEPT !.sl = sleepers]]
    /\ UNCHANGED <<kind, Addr, reclaimed, heapVars, chanVars, histVars>>

\* mod.rs 110, 114: self.inner.sleepers.load(Acquire) > 0, else Ok(())
SendLoadSleepers(t) ==
    /\ th[t].pc = "send_sleepers"
    /\ th' = [th EXCEPT ![t] = IF sleepers > 0 THEN [@ EXCEPT !.pc = "send_lock"]
                               ELSE [@ EXCEPT !.pc = "idle", !.res = Res("Ok", 0)]]
    /\ okSent' = IF sleepers > 0 THEN okSent ELSE okSent \cup {th[t].v}
    /\ UNCHANGED <<kind, Addr, reclaimed, heapVars, chanVars, nextv, pushed, popped, rets>>

\* mod.rs 111: *self.inner.guard.lock().unwrap() = true (the guard is a
\* temporary: the mutex is released at the end of the statement)
SendLock(t) ==
    /\ th[t].pc = "send_lock"
    /\ guard = "free"
    /\ guardVal' = TRUE
    /\ th' = [th EXCEPT ![t] = [@ EXCEPT !.pc = "send_notify"]]
    /\ UNCHANGED <<kind, Addr, reclaimed, heapVars, connected, sleepers, guard, waiting, holders, histVars>>

\* mod.rs 112, 114: self.inner.waker.notify_one(); Ok(())
SendNotify(t) ==
    /\ th[t].pc = "send_notify"
    /\ IF waiting = {}
       THEN /\ th' = [th EXCEPT ![t] = [@ EXCEPT !.pc = "idle", !.res = Res("Ok", 0)]]
            /\ UNCHANGED waiting
       ELSE \E w \in waiting :
            /\ waiting' = waiting \ {w}
            /\ th' = [th EXCEPT ![t] = [@ EXCEPT !.pc = "idle", !.res = Res("Ok", 0)],
                                ![w] = [@ EXCEPT !.pc = "recv_reacquire"]]
    /\ okSent' = okSent \cup {th[t].v}
    /\ UNCHANGED <<kind, Addr, reclaimed, heapVars, connected, sleepers, guard, guardVal, holders,
                   nextv, pushed, popped, rets>>

\* mod.rs 129-135: Sender::clone, the clone moved to a thread without a handle
SenderClone(t) ==
    /\ t \in SenderHandles
    /\ th[t].pc = "idle"
    /\ \E u \in (Senders \cap Threads) \ holders :
        /\ th[u].pc = "idle"
        /\ holders' = holders \cup {u}
    /\ UNCHANGED <<kind, Addr, reclaimed, heapVars, connected, sleepers, guard, guardVal, waiting, th, histVars>>

\* A slip in mod.rs 86-96: Drop implemented for Sender instead of SendInner,
\* so that the release of every clone runs it.
ReleaseSender_EveryClone(t) ==
    /\ t \in SenderHandles
    /\ th[t].pc = "idle"
    /\ holders' = holders \ {t}
    /\ th' = [th EXCEPT ![t] = [IdleThread EXCEPT !.pc = "sdrop", !.op = "drop"]]
    /\ UNCHANGED <<kind, Addr, reclaimed, heapVars, connected, sleepers, guard, guardVal, waiting, histVars>>

\* The release of a Sender: Arc<SendInner> runs Drop for SendInner (mod.rs
\* 86-96) when the last clone goes.
ReleaseSender(t) ==
    /\ t \in SenderHandles
    /\ th[t].pc = "idle"
    /\ holders' = holders \ {t}
    /\ th' = [th EXCEPT ![t] = IF SenderHandles = {t}
                               THEN [IdleThread EXCEPT !.pc = "sdrop", !.op = "drop"]
                               ELSE IdleThread]
    /\ UNCHANGED <<kind, Addr, reclaimed, heapVars, connected, sleepers, guard, guardVal, waiting, histVars>>

\* A Sender going out of scope
SenderDrop(t) == ReleaseSender(t)

\* mod.rs 126: pub fn close(self) {}
SenderClose(t) == ReleaseSender(t)

\* mod.rs 91: self.inner.sleepers.load(Acquire) > 0, taking effect before the
\* Release store of line 89 does.
SDropLoadEarly(t) ==
    /\ th[t].pc = "sdrop"
    /\ th[t].sl = Unset
    /\ th' = [th EXCEPT ![t] = [@ EXCEPT !.sl = sleepers]]
    /\ UNCHANGED <<kind, Addr, reclaimed, heapVars, chanVars, histVars>>

\* mod.rs 89: self.inner.connected.store(false, Release)
SDropStore(t) ==
    /\ th[t].pc = "sdrop"
    /\ connected' = FALSE
    /\ th' = [th EXCEPT ![t] = IF th[t].sl = Unset THEN [@ EXCEPT !.pc = "sdrop_load"]
                               ELSE IF th[t].sl > 0 THEN [@ EXCEPT !.pc = "sdrop_lock"]
                               ELSE IdleThread]
    /\ UNCHANGED <<kind, Addr, reclaimed, heapVars, sleepers, guard, guardVal, waiting, holders, histVars>>

\* mod.rs 91: if self.inner.sleepers.load(Acquire) > 0
SDropLoad(t) ==
    /\ th[t].pc = "sdrop_load"
    /\ th' = [th EXCEPT ![t] = IF sleepers > 0 THEN [@ EXCEPT !.pc = "sdrop_lock"]
                               ELSE IdleThread]
    /\ UNCHANGED <<kind, Addr, reclaimed, heapVars, chanVars, histVars>>

\* mod.rs 92: *self.inner.guard.lock().unwrap() = true
SDropLock(t) ==
    /\ th[t].pc = "sdrop_lock"
    /\ guard = "free"
    /\ guardVal' = TRUE
    /\ th' = [th EXCEPT ![t] = [@ EXCEPT !.pc = "sdrop_notify"]]
    /\ UNCHANGED <<kind, Addr, reclaimed, heapVars, connected, sleepers, guard, waiting, holders, histVars>>

\* mod.rs 93: self.inner.waker.notify_all()
SDropNotify(t) ==
    /\ th[t].pc = "sdrop_notify"
    /\ waiting' = {}
    /\ th' = [u \in Threads |-> IF u = t THEN IdleThread
                                ELSE IF u \in waiting THEN [th[u] EXCEPT !.pc = "recv_reacquire"]
                                ELSE th[u]]
    /\ UNCHANGED <<kind, Addr, reclaimed, heapVars, connected, sleepers, guard, guardVal, holders, histVars>>

\* mod.rs 159-160: try_recv() enters pop
TryRecvCall(t) ==
    /\ t \in ReceiverHandles
    /\ th[t].pc = "idle"
    /\ Len(popped) < MaxPops
    /\ th' = [th EXCEPT ![t] = [IdleThread EXCEPT !.pc = PopEntry, !.op = "try_recv",
                                                   !.seen = {v \in okSent : Unreceived(v)}]]
    /\ UNCHANGED <<kind, Addr, reclaimed, heapVars, chanVars, histVars>>

\* mod.rs 173-174: recv() enters its first try_recv
RecvCall(t) ==
    /\ t \in ReceiverHandles
    /\ th[t].pc = "idle"
    /\ Len(popped) < MaxPops
    /\ th' = [th EXCEPT ![t] = [IdleThread EXCEPT !.pc = PopEntry, !.op = "recv"]]
    /\ UNCHANGED <<kind, Addr, reclaimed, heapVars, chanVars, histVars>>

\* mod.rs 162-168: pop returned None: Empty if connected, else Disconnected;
\* then the match of recv (175-178) or of its loop (184-195).
TryRecvConnected(t) ==
    /\ th[t].pc = "try_conn"
    /\ th' = [th EXCEPT ![t] =
                IF connected
                THEN IF th[t].op = "try_recv" THEN [@ EXCEPT !.pc = "idle", !.res = Res("Empty", 0)]
                     ELSE IF th[t].op = "recv" THEN [@ EXCEPT !.pc = "recv_lock"]
                     ELSE [@ EXCEPT !.pc = "recv_wait"]
                ELSE IF th[t].op = "recv_loop"
                     THEN [@ EXCEPT !.pc = "recv_dec", !.res = Res("Disconnected", 0)]
                     ELSE [@ EXCEPT !.pc = "idle", !.res = Res("Disconnected", 0), !.seen = {}]]
    /\ UNCHANGED <<kind, Addr, reclaimed, heapVars, chanVars, histVars>>

\* mod.rs 181: let mut guard = self.inner.guard.lock().unwrap()
RecvLock(t) ==
    /\ th[t].pc = "recv_lock"
    /\ guard = "free"
    /\ guard' = t
    /\ th' = [th EXCEPT ![t] = [@ EXCEPT !.pc = "recv_inc"]]
    /\ UNCHANGED <<kind, Addr, reclaimed, heapVars, connected, sleepers, guardVal, waiting, holders, histVars>>

\* mod.rs 182-184: self.inner.sleepers.fetch_add(1, Relaxed); loop { match self.try_recv()
RecvInc(t) ==
    /\ th[t].pc = "recv_inc"
    /\ sleepers' = sleepers + 1
    /\ th' = [th EXCEPT ![t] = [@ EXCEPT !.pc = PopEntry, !.op = "recv_loop"]]
    /\ UNCHANGED <<kind, Addr, reclaimed, heapVars, connected, guard, guardVal, waiting, holders, histVars>>

\* A slip in mod.rs 195: the receiver parks without giving up the wake mutex.
RecvWait_KeepMutex(t) ==
    /\ th[t].pc = "recv_wait"
    /\ waiting' = waiting \cup {t}
    /\ th' = [th EXCEPT ![t] = [@ EXCEPT !.pc = "recv_parked"]]
    /\ UNCHANGED <<kind, Addr, reclaimed, heapVars, connected, sleepers, guard, guardVal, holders, histVars>>

\* mod.rs 195: self.inner.waker.wait(guard): release the mutex and park
RecvWait(t) ==
    /\ th[t].pc = "recv_wait"
    /\ guard' = "free"
    /\ waiting' = waiting \cup {t}
    /\ th' = [th EXCEPT ![t] = [@ EXCEPT !.pc = "recv_parked"]]
    /\ UNCHANGED <<kind, Addr, reclaimed, heapVars, connected, sleepers, guardVal, holders, histVars>>

\* Condvar::wait may return without a notify.
SpuriousWake(t) ==
    /\ t \in waiting
    /\ th[t].pc = "recv_parked"
    /\ waiting' = waiting \ {t}
    /\ th' = [th EXCEPT ![t] = [@ EXCEPT !.pc = "recv_reacquire"]]
    /\ UNCHANGED <<kind, Addr, reclaimed, heapVars, connected, sleepers, guard, guardVal, holders, histVars>>

\* mod.rs 195, 183-184: wait() takes the mutex again and returns; the loop
\* calls try_recv
RecvReacquire(t) ==
    /\ th[t].pc = "recv_reacquire"
    /\ guard = "free"
    /\ guard' = t
    /\ th' = [th EXCEPT ![t] = [@ EXCEPT !.pc = PopEntry]]
    /\ UNCHANGED <<kind, Addr, reclaimed, heapVars, connected, sleepers, guardVal, waiting, holders, histVars>>

\* A slip in mod.rs 189-197: the Disconnected arm returns at once instead of
\* breaking out of the loop, and skips the fetch_sub.
RecvDec_SkipOnDisconnect(t) ==
    /\ th[t].pc = "recv_dec"
    /\ sleepers' = IF th[t].res.tag = "Disconnected" THEN sleepers ELSE sleepers - 1
    /\ th' = [th EXCEPT ![t] = [@ EXCEPT !.pc = "recv_unlock"]]
    /\ UNCHANGED <<kind, Addr, reclaimed, heapVars, connected, guard, guardVal, waiting, holders, histVars>>

\* mod.rs 197: self.inner.sleepers.fetch_sub(1, Relaxed)
RecvDec(t) ==
    /\ th[t].pc = "recv_dec"
    /\ sleepers' = sleepers - 1
    /\ th' = [th EXCEPT ![t] = [@ EXCEPT !.pc = "recv_unlock"]]
    /\ UNCHANGED <<kind, Addr, reclaimed, heapVars, connected, guard, guardVal, waiting, holders, histVars>>

\* mod.rs 198-199: ret; the guard goes out of scope
RecvUnlock(t) ==
    /\ th[t].pc = "recv_unlock"
    /\ guard' = "free"
    /\ th' = [th EXCEPT ![t] = [@ EXCEPT !.pc = "idle"]]
    /\ UNCHANGED <<kind, Addr, reclaimed, heapVars, connected, sleepers, guardVal, waiting, holders, histVars>>

\* mod.rs 143-149: Receiver::clone, the clone moved to a thread without a handle
ReceiverClone(t) ==
    /\ t \in ReceiverHandles
    /\ th[t].pc = "idle"
    /\ \E u \in (Receivers \cap Threads) \ holders :
        /\ th[u].pc = "idle"
        /\ holders' = holders \cup {u}
    /\ UNCHANGED <<kind, Addr, reclaimed, heapVars, connected, sleepers, guard, guardVal, waiting, th, histVars>>

\* A slip in mod.rs 80-84: the release of the last Receiver leaves the
\* liveness flag as it is.
ReceiverDrop_NoStore(t) ==
    /\ t \in ReceiverHandles
    /\ th[t].pc = "idle"
    /\ holders' = holders \ {t}
    /\ th' = [th EXCEPT ![t] = IdleThread]
    /\ UNCHANGED <<kind, Addr, reclaimed, heapVars, connected, sleepers, guard, guardVal, waiting, histVars>>

\* The release of a Receiver: Arc<RecvInner> runs Drop for RecvInner (mod.rs
\* 80-84: self.inner.connected.store(false, Release)) when the last clone goes.
ReceiverDrop(t) ==
    /\ t \in ReceiverHandles
    /\ th[t].pc = "idle"
    /\ holders' = holders \ {t}
    /\ connected' = IF ReceiverHandles = {t} THEN FALSE ELSE connected
    /\ th' = [th EXCEPT ![t] = IdleThread]
    /\ UNCHANGED <<kind, Addr, reclaimed, heapVars, sleepers, guard, guardVal, waiting, histVars>>

\* Sender::send without the wake-up
SendStep ==
    \/ \E t \in Threads : SendCall(t)
    \/ \E t \in Threads : SendLoadSleepersEarly(t)
    \/ \E t \in Threads : SendLoadSleepers(t)

\* The wake-up of Sender::send
SendWakeStep ==
    \/ \E t \in Threads : SendLock(t)
    \/ \E t \in Threads : SendNotify(t)

\* The release of Sender handles, without the wake-up
SenderReleaseStep ==
    \/ \E t \in Threads : SenderDrop(t)
    \/ \E t \in Threads : SenderClose(t)
    \/ \E t \in Threads : SDropLoadEarly(t)
    \/ \E t \in Threads : SDropStore(t)
    \/ \E t \in Threads : SDropLoad(t)

\* The wake-up of Drop for SendInner
SDropWakeStep ==
    \/ \E t \in Threads : SDropLock(t)
    \/ \E t \in Threads : SDropNotify(t)

\* Receiver::try_recv
TryRecvStep ==
    \/ \E t \in Threads : TryRecvCall(t)
    \/ \E t \in Threads : TryRecvConnected(t)

\* Receiver::recv
RecvStep ==
    \/ \E t \in Threads : RecvCall(t)
    \/ \E t \in Threads : RecvLock(t)
    \/ \E t \in Threads : RecvInc(t)
    \/ \E t \in Threads : RecvWait(t)
    \/ \E t \in Threads : RecvReacquire(t)
    \/ \E t \in Threads : RecvDec(t)
    \/ \E t \in Threads : RecvUnlock(t)

\* ----------------------------------------------------------- specifications
\* queue.rs 30-36 Queue::new and stack.rs 18-22 Stack::new
InitHeap(k, n) ==
    /\ kind = k
    /\ Addr = 1 .. n
    /\ IF k = "queue"
       THEN head = 1 /\ tail = 1 /\ live = {1}
       ELSE head = NULL /\ tail = NULL /\ live = {}
    /\ mem = [a \in Addr |-> FreeNode]

\* mod.rs 9-29: queue() and stack()
InitChan ==
    /\ connected = TRUE
    /\ sleepers = 0
    /\ guard = "free"
    /\ guardVal = FALSE
    /\ waiting = {}

InitHist ==
    /\ nextv = 1
    /\ pushed = <<>>
    /\ popped = <<>>
    /\ okSent = {}
    /\ rets = <<>>
    /\ reclaimed = <<>>

\* The channel as queue() and stack() return it: one Sender, one Receiver, and
\* the threads that clones of them can be moved to.
InitThreads(T) ==
    /\ \E k \in {"queue", "stack"} : InitHeap(k, MaxSends + 1)
    /\ InitChan
    /\ InitHist
    /\ holders = {"s1", "r1"}
    /\ th = [t \in T |-> IdleThread]

\* Senders and receivers that do not block: send, try_recv, clone, drop, close.
Init == \E T \in {{"s1", "s2", "r1"}, {"s1", "r1", "r2"}} : InitThreads(T)

Next ==
    \/ SendStep
    \/ \E t \in Threads : SenderClone(t)
    \/ SenderReleaseStep
    \/ TryRecvStep
    \/ \E t \in Threads : ReceiverClone(t)
    \/ \E t \in Threads : ReceiverDrop(t)
    \/ ContainerStep
    \/ DropStep

Spec == Init /\ [][Next]_vars

\* Senders and one receiver that may block in recv.
InitWake == \E T \in {{"s1", "r1"}, {"s1", "s2", "r1"}} : InitThreads(T)

NextWake ==
    \/ SendStep
    \/ SendWakeStep
    \/ \E t \in Threads : SenderClone(t)
    \/ SenderReleaseStep
    \/ SDropWakeStep
    \/ TryRecvStep
    \/ RecvStep
    \/ \E t \in Threads : ReceiverDrop(t)
    \/ ContainerStep
    \/ \E t \in Threads : SpuriousWake(t)

SpecWake == InitWake /\ [][NextWake]_vars

\* A step of thread t inside a call it has made: the scheduler runs every
\* thread that can take a step. Calls, clones and releases are the caller's
\* choice, and a spurious wake-up is never owed.
Running(t) ==
    /\ t \in Threads
    /\ th[t].pc # "idle"
    /\ NextWake
    /\ th'[t] # th[t]
    /\ ~SpuriousWake(t)

FairWake == SpecWake /\ \A t \in Senders \cup Receivers : WF_vars(Running(t))

\* A sender takes the wake mutex.
SenderAcquires == \E t \in Senders \cap Threads : SendLock(t) \/ SDropLock(t)

\* FairWake with a mutex that does not starve the senders: when a sender can
\* take the mutex again and again, a sender does take it.
FairLock == FairWake /\ SF_vars(SenderAcquires)

\* A container used by one thread, as in the tests of queue.rs and stack.rs.
InitSeq ==
    /\ \E k \in {"queue", "stack"} : InitHeap(k, MaxLen + 1)
    /\ InitChan
    /\ InitHist
    /\ holders = {}
    /\ th = [t \in {"main"} |-> IdleThread]

\* queue.push(v) / stack.push(v), called directly as in the tests' sanity().
CallPush(t) ==
    /\ th[t].pc = "idle"
    /\ rets = <<>>
    /\ Len(pushed) < MaxLen
    /\ \E v \in Val :
        th' = [th EXCEPT ![t] = [IdleThread EXCEPT !.pc = PushEntry, !.op = "push", !.v = v]]
    /\ UNCHANGED <<kind, Addr, reclaimed, heapVars, chanVars, histVars>>

\* queue.pop() / stack.pop(), called directly; one call more than there are values.
CallPop(t) ==
    /\ th[t].pc = "idle"
    /\ Len(rets) <= Len(pushed)
    /\ th' = [th EXCEPT ![t] = [IdleThread EXCEPT !.pc = PopEntry, !.op = "pop"]]
    /\ UNCHANGED <<kind, Addr, reclaimed, heapVars, chanVars, histVars>>

\* queue.len() / stack.len(), called directly as in the tests' len().
CallLen(t) ==
    /\ th[t].pc = "idle"
    /\ th' = [th EXCEPT ![t] = [IdleThread EXCEPT !.pc = LenEntry, !.op = "len"]]
    /\ UNCHANGED <<kind, Addr, reclaimed, heapVars, chanVars, histVars>>

NextSeq ==
    \/ \E t \in Threads : CallPush(t)
    \/ \E t \in Threads : CallPop(t)
    \/ \E t \in Threads : CallLen(t)
    \/ ContainerStep
    \/ LenStep
    \/ DropStep

SpecSeq == InitSeq /\ [][NextSeq]_vars

\* ------------------------------------------------------------------ claims
\* C1: on a fresh queue used by one thread, the pops that follow pushes of
\* v1..vn return v1..vn in insertion order, and the pop after them returns None.
C1_QueueFifo ==
    kind = "queue" =>
        \A i \in DOMAIN rets : rets[i] = IF i <= Len(pushed) THEN pushed[i] ELSE None

\* C1 witness: MaxLen values pushed, MaxLen + 1 pops returned, the last one None.
C1_Witness ==
    /\ kind = "queue"
    /\ Len(pushed) = MaxLen
    /\ Len(rets) = MaxLen + 1
    /\ rets[MaxLen + 1] = None
    /\ \E i \in 1 .. MaxLen - 1 : pushed[i] # pushed[i + 1]

\* C2: on a fresh stack used by one thread, the pops that follow pushes of
\* v1..vn return vn..v1, the reverse of insertion order, and the pop after
\* them returns None.
C2_StackLifo ==
    kind = "stack" =>
        \A i \in DOMAIN rets :
            rets[i] = IF i <= Len(pushed) THEN pushed[Len(pushed) + 1 - i] ELSE None

\* C2 witness: MaxLen values pushed, MaxLen + 1 pops returned, the last one None.
C2_Witness ==
    /\ kind = "stack"
    /\ Len(pushed) = MaxLen
    /\ Len(rets) = MaxLen + 1
    /\ rets[MaxLen + 1] = None
    /\ \E i \in 1 .. MaxLen - 1 : pushed[i] # pushed[i + 1]

\* C3: exactly-once delivery: every value a receive call takes was inserted by
\* a send, and no value is taken by more than one receive call.
C3_ExactlyOnce ==
    \A i \in DOMAIN popped :
        popped[i] \notin {Pending, None} =>
            /\ \E j \in DOMAIN pushed : pushed[j] = popped[i]
            /\ Got(popped[i]) <= 1

\* C4: queue variant: the payloads come out, in the order the exchanges on
\* head were won, as the values went in, in the order the exchanges on tail
\* were won; none is skipped.
C4_QueueOrder ==
    kind = "queue" =>
        \A i \in DOMAIN popped :
            popped[i] # Pending => i <= Len(pushed) /\ popped[i] = pushed[i]

\* C5: a receive call reports Disconnected only when the container holds no
\* value whose send returned Ok.
C5_DrainBeforeDisconnected ==
    \A t \in Threads :
        th[t].pc = "idle" /\ th[t].res.tag = "Disconnected" =>
            \A v \in okSent : ~Unreceived(v)

\* C6: wake-up on data: it never holds forever that a receiver is parked on
\* the condition variable while the container holds a value whose send has
\* returned Ok.
C6_WakeOnData ==
    \A r \in Receivers :
        []<>~(/\ r \in Threads
              /\ th[r].pc = "recv_parked"
              /\ \E v \in okSent : Unreceived(v))

\* A receiver inside recv.
InRecv(r) == r \in Threads /\ th[r].op \in {"recv", "recv_loop"} /\ th[r].pc # "idle"

\* C7: wake-up on disconnect: once the last sender handle is released, every
\* receiver that is inside recv eventually returns.
C7_WakeOnDisconnect ==
    \A r \in Receivers :
        (SenderHandles = {} /\ InRecv(r)) ~> ~InRecv(r)

\* C8: a send that starts after every receiver handle has been released
\* returns Err with the value it was given, inserts nothing, and neither takes
\* the wake mutex nor notifies the condition variable.
C8_SendAfterReceiversGone ==
    [][\A t \in Senders :
          (/\ t \in Threads
           /\ ReceiverHandles = {}
           /\ th[t].pc = "idle"
           /\ th'[t] # th[t]
           /\ nextv' = nextv + 1)
          => (/\ th'[t].pc = "idle"
              /\ th'[t].res = Res("Err", nextv)
              /\ UNCHANGED <<heapVars, pushed, guard, guardVal, waiting>>
              /\ \A u \in Threads \ {t} : th'[u] = th[u])]_vars

\* C8 witness: no receiver handle is left and a send has returned Err with its value.
C8_Witness ==
    /\ ReceiverHandles = {}
    /\ \E t \in Threads :
        /\ th[t].op = "send"
        /\ th[t].pc = "idle"
        /\ th[t].res = Res("Err", th[t].v)
        /\ th[t].v # None

\* C9: once the liveness flag is false, no send inserts a value or returns Ok.
C9_NoSendAfterDisconnect ==
    [][~connected => pushed' = pushed /\ okSent' = okSent]_vars

\* C10: a try_recv that starts after a send returned Ok, the value of which
\* is still in the container when the try_recv returns, does not return Empty.
C10_EmptyOnlyWhenEmpty ==
    \A t \in Threads :
        th[t].pc = "idle" /\ th[t].res.tag = "Empty" =>
            \A v \in th[t].seen : ~Unreceived(v)

\* A thread that waits: for the wake mutex while another thread holds it, or
\* parked on the condition variable.
Suspended(t) ==
    \/ th[t].pc \in {"send_lock", "sdrop_lock", "recv_lock", "recv_reacquire"} /\ guard # "free"
    \/ th[t].pc = "recv_parked"

\* C11: send and try_recv never block: a thread inside one of them never waits
\* on the wake mutex or on the condition variable.
C11_NeverBlock ==
    \A t \in Threads : th[t].op \in {"send", "try_recv"} => ~Suspended(t)

\* Every release of a sender handle that was started has returned.
SenderReleasesDone == \A t \in Senders \cap Threads : th[t].pc = "idle"

\* C12: the liveness flag is true while a sender handle and a receiver handle
\* exist, is false once the last receiver handle or the last sender handle has
\* been released, and never goes from false back to true.
C12_FlagFollowsHandles ==
    /\ [](SenderHandles # {} /\ ReceiverHandles # {} => connected)
    /\ [](ReceiverHandles = {} => ~connected)
    /\ [](SenderHandles = {} /\ SenderReleasesDone => ~connected)
    /\ [][~connected => ~connected']_vars

\* C12 witness: the first sender was released after it was cloned and after a
\* send of its clone returned Ok, and the flag is still true.
C12_Witness ==
    /\ connected
    /\ SenderHandles = {"s2"}
    /\ ReceiverHandles # {}
    /\ \E t \in Threads : t = "s2" /\ th[t].pc = "idle" /\ th[t].res.tag = "Ok"

\* How often value v occurs in a history.
Count(seq, v) == Cardinality({i \in DOMAIN seq : seq[i] = v})

\* C13: every value pushed is released exactly once, by the pop that unlinked
\* its node or by the destructor; the destructor reclaims only allocated
\* nodes, and when it is done no node is left and every value was released.
C13_ReleasedOnce ==
    /\ \A v \in Val : Count(popped, v) + Count(reclaimed, v) <= Count(pushed, v)
    /\ \A t \in Threads : th[t].pc = "drop_node" => th[t].h \in live
    /\ \A t \in Threads :
          th[t].pc = "dropped" =>
              /\ live = {}
              /\ \A v \in Val : Count(popped, v) + Count(reclaimed, v) = Count(pushed, v)

\* The values in the container of a single thread between two calls.
Pending1 == Len(pushed) - Cardinality({i \in DOMAIN rets : rets[i] # None})

\* A step of a len call: from the call to the return.
LenPc == {"q_len", "q_len_check", "q_len_next", "s_len", "s_len_step"}
InLen(t) == th[t].pc \in LenPc \/ th'[t].pc \in LenPc

Sleeping == {r \in Receivers \cap Threads :
                th[r].op = "recv_loop" /\ th[r].pc \notin {"recv_unlock", "idle"}}

\* C15: the sleeper count equals the number of receivers between the
\* fetch_add and the fetch_sub of recv, it changes by one and only in a step of
\* the thread that holds the wake mutex, and it is 0 when no recv is in progress.
C15_SleeperCount ==
    /\ [](sleepers = Cardinality(Sleeping))
    /\ []((\A r \in Receivers : ~InRecv(r)) => sleepers = 0)
    /\ [][sleepers' # sleepers =>
            /\ guard \in Threads
            /\ guard' = guard
            /\ th'[guard] # th[guard]
            /\ sleepers' \in {sleepers + 1, sleepers - 1}
            /\ sleepers' >= 0]_vars

\* C15 witness: a blocking recv has returned a value, and the count is back at 0.
C15_Witness ==
    /\ sleepers = 0
    /\ \E r \in Receivers \cap Threads :
        th[r].op = "recv_loop" /\ th[r].pc = "idle" /\ th[r].res.tag = "Ok"

\* The destructor of the container has started.
Destroying == \E t \in Threads : th[t].op = "destroy"

\* C16: queue: head is never null and points to a node of the list, the node
\* tail points to has an empty payload and a null successor, a node with a
\* successor carries its payload, and a pop that won the exchange on head
\* returns a value, never the empty placeholder.
C16_QueueStructure ==
    kind = "queue" /\ ~Crashed /\ ~Destroying =>
        /\ head # NULL
        /\ head \in live
        /\ tail \in live
        /\ mem[tail] = [data |-> None, next |-> NULL]
        /\ \A a \in live : mem[a].next # NULL => mem[a].data # None
        /\ \A i \in DOMAIN popped : popped[i] # None

\* The threads that won the exchange on head and have not reclaimed the node yet.
Owners(a) == {t \in Threads : th[t].pc \in {"q_pop_take", "s_pop_take"} /\ th[t].h = a}

\* C17: a node is unlinked by at most one thread, the thread that unlinked it
\* reclaims an allocated node, and head never points to a reclaimed node.
C17_UniqueOwner ==
    ~Crashed =>
        /\ \A a \in Addr : Cardinality(Owners(a)) <= 1
        /\ \A a \in Addr : Owners(a) # {} => a \in live
        /\ head # NULL => head \in live

\* A step in which thread t reads the successor link or the payload of the node
\* it loaded from head.
ReadsNode(t) ==
    /\ th[t].pc \in {"q_pop_check", "q_pop_read", "q_pop_take", "s_pop_read", "s_pop_take"}
    /\ th[t].h # NULL
    /\ th'[t] # th[t]

\* C18: no pop reads the successor link or the payload of a node that has been
\* reclaimed.
C18_NoUseAfterFree ==
    [][\A t \in Threads : ReadsNode(t) => th[t].h \in live]_vars

\* The positions inside LockFree::push and LockFree::pop.
ContainerPc ==
    {"q_push", "q_push_load", "q_push_cas", "q_push_data", "q_push_next",
     "q_pop", "q_pop_check", "q_pop_read", "q_pop_cas", "q_pop_take",
     "s_push", "s_push_load", "s_push_link", "s_push_cas",
     "s_pop", "s_pop_read", "s_pop_cas", "s_pop_take"}

\* Thread t is inside push or pop.
InContainer(t) == th[t].pc \in ContainerPc

\* Thread t goes round the loop of push or pop once more.
Retries(t) ==
    \/ th[t].pc = "q_push_cas" /\ th'[t].pc = "q_push_load"
    \/ th[t].pc = "s_push_cas" /\ th'[t].pc = "s_push_load"
    \/ th[t].pc = "q_pop_cas" /\ th'[t].pc = "q_pop"
    \/ th[t].pc = "s_pop_cas" /\ th'[t].pc = "s_pop"

\* The pointer the exchange of thread t is on.
Exchanged(t) == IF th[t].pc = "q_push_cas" THEN tail ELSE head

\* C19: a push or pop goes round its loop again only when the pointer was
\* changed since it loaded it, and every push and every pop goes on until it
\* returns: no step ends the process while a thread is inside push or pop.
C19_PushPopProgress ==
    [][\A t \in Threads :
          /\ Retries(t) => Exchanged(t) # th[t].h
          /\ InContainer(t) => th'[t].pc # "crash"]_vars

\* Thread t is about to acquire the wake mutex in send or in the last sender's drop.
WantsMutex(t) == t \in Threads /\ th[t].pc \in {"send_lock", "sdrop_lock"}

====
